---- MODULE Spec2Model ----
(***************************************************************************)
(* A model of the bitwise XOR gadget (xor / xorRec) and of the Keccak      *)
(* sponge built on it (pad, bytesToWords, absorb, squeeze, hash and the    *)
(* public entry points nistSha3 / preNist / ethereum).                     *)
(*                                                                         *)
(* A field element with a concrete value is the little-endian sequence of  *)
(* its bits without leading zero bits (0 is <<>>, 6 is <<0, 1, 1>>), so    *)
(* that 64-bit lanes and 255-bit decompositions keep their exact value.    *)
(* A circuit variable whose value is not known while the constraint system *)
(* is built is NoVal.                                                      *)
(***************************************************************************)
EXTENDS Integers, Sequences, FiniteSets, TLC

VARIABLES calls, hashCall, unit, offchainState

vars == <<calls, hashCall, unit, offchainState>>

\* ------------------------------------------------------------------ bounds

\* operands of a witnessed xor are v and v * 52429 (bits spread over 18) for
\* v <= MaxVal
MaxVal == 3
\* largest nibble width (len_xor) tried
MaxNibble == 4
\* largest length of a xor call whose witness closures are run
MaxWitnessLength == 18
\* largest length and operand of two xor calls run one after the other
MaxPairLength == 9
MaxPairVal == 2
\* longest gate list of a constraint system, longest single gate list handed
\* to contains, longest gate list inside a list of lists handed to contains
MaxCsLength == 4
MaxPatternLength == 3
MaxRunLength == 2
\* largest length and operand of an xor applied to the result of an xor
MaxTwiceLength == 17
MaxTwiceVal == 3
\* largest rate and longest padded message (in words) handed to absorb alone
MaxAbsorbRate == 3
MaxAbsorbLength == 4
\* lanes handed to State.xor and round alone hold a value up to this one
MaxLane == 1
\* longest message (in bytes) handed to nistSha3, preNist and ethereum
MaxMessageLength == 1
\* largest output length (in bytes) handed to hash directly
MaxHashLength == 17
\* longest message and largest rate (in bytes) handed to pad alone
MaxPadLength == 12
MaxPadRate == 8
\* longest byte array handed to bytesToWords
MaxCodecLength == 17
\* largest length and rate (in words) handed to squeeze alone
MaxSqueezeLength == 27
MaxSqueezeRate == 27
\* words handed to wordToBytes alone are 2^i + 2^j for i up to this one
MaxWordBit == 65
\* lanes handed to piRho alone have their bit at a place up to this one
MaxPiRhoBit == 3
\* number of nested xorRec frames the call stack holds before a RangeError
MaxStack == 66

\* amounts to mint and to transfer, the total supply (which stands for the
\* width of a UInt64), and the actions pending between two settlements
MaxAmount == 1
MaxSupply == 2
MaxActions == 2

\* ------------------------------------------------------- program constants

\* Field.sizeInBits()
FieldBits == 255

\* ------------------------------------------------------ field arithmetic

\* the value of a variable during constraint emission
NoVal == <<-1>>
\* a field operation whose result leaves the modelled range (wrap around the
\* modulus, division that is not exact)
NotModelled == <<-2>>
\* a value computation that threw
Thrown == <<-3>>

\* drops the zero bits above the highest set bit
Norm(s) ==
    LET set == {i \in 1..Len(s) : s[i] = 1}
    IN  IF set = {} THEN <<>>
        ELSE SubSeq(s, 1, CHOOSE i \in set : \A j \in set : j <= i)

RECURSIVE FieldFrom(_)
FieldFrom(n) ==
    IF n = 0 THEN <<>> ELSE <<n % 2>> \o FieldFrom(n \div 2)

\* 2 ** n, 1n << BigInt(n)
TwoPow(n) == [i \in 1..(n + 1) |-> IF i = n + 1 THEN 1 ELSE 0]

\* bit i (from 1, least significant first) of a field element
bitAt(f, i) == IF i <= Len(f) THEN f[i] ELSE 0

toBits(f) == [i \in 1..FieldBits |-> bitAt(f, i)]

fromBits(bits) == Norm(bits)

\* x < y
BitsLess(x, y) ==
    \/ Len(x) < Len(y)
    \/ /\ Len(x) = Len(y)
       /\ \E i \in 1..Len(x) :
              /\ x[i] < y[i]
              /\ \A j \in (i + 1)..Len(x) : x[j] = y[j]

\* the bits of x + y from position i on, with carry c into position i
RECURSIVE AddCarry(_, _, _, _)
AddCarry(x, y, i, c) ==
    IF i > Len(x) /\ i > Len(y) THEN (IF c = 0 THEN <<>> ELSE <<1>>)
    ELSE LET s == bitAt(x, i) + bitAt(y, i) + c
         IN  <<s % 2>> \o AddCarry(x, y, i + 1, s \div 2)

FieldAdd(x, y) ==
    IF y = <<>> THEN x
    ELSE IF x = <<>> THEN y
    ELSE Norm(AddCarry(x, y, 1, 0))

\* the bits of x - y from position i on, with borrow c out of position i
RECURSIVE SubBorrow(_, _, _, _)
SubBorrow(x, y, i, c) ==
    IF i > Len(x) THEN <<>>
    ELSE LET d == x[i] - bitAt(y, i) - c
         IN  <<(d + 2) % 2>> \o SubBorrow(x, y, i + 1, IF d < 0 THEN 1 ELSE 0)

FieldSub(x, y) ==
    IF y = <<>> THEN x
    ELSE IF BitsLess(x, y) THEN NotModelled
    ELSE Norm(SubBorrow(x, y, 1, 0))

\* y * 2^k
ShiftLeft(y, k) ==
    IF y = <<>> THEN <<>>
    ELSE [j \in 1..(k + Len(y)) |-> IF j <= k THEN 0 ELSE y[j - k]]

\* the sum of y * 2^(j-1) over the set bits j >= i of x
RECURSIVE MulFrom(_, _, _)
MulFrom(x, y, i) ==
    IF i > Len(x) THEN <<>>
    ELSE IF x[i] = 1 THEN FieldAdd(ShiftLeft(y, i - 1), MulFrom(x, y, i + 1))
    ELSE MulFrom(x, y, i + 1)

FieldMul(x, y) == MulFrom(x, y, 1)

\* x / d in the field, for d a power of two that divides x
FieldDiv(x, d) ==
    LET k == Len(d) - 1
    IN  IF d # TwoPow(k) THEN NotModelled
        ELSE IF x = <<>> THEN <<>>
        ELSE IF Len(x) <= k \/ \E i \in 1..k : x[i] # 0 THEN NotModelled
        ELSE SubSeq(x, k + 1, Len(x))

\* ------------------------------------------------------------ xor gadget

XorModes == {"witness", "emit"}

IdleCall ==
    [status |-> "idle", error |-> "", mode |-> "emit",
     a |-> [const |-> FALSE, val |-> NoVal], b |-> [const |-> FALSE, val |-> NoVal],
     length |-> 0, len_xor |-> 0,
     input1 |-> NoVal, input2 |-> NoVal, outputXor |-> NoVal, out |-> NoVal,
     padLength |-> 0, depth |-> 0, gates |-> <<>>, witnesses |-> 0, asserts |-> 0]

\* assert(word.toBigInt() < 2 ** length)
fitsInBits(word, length) == BitsLess(word, TwoPow(length))

\* both lengths are positive
xorLengthsPositive(length, len_xor) == length > 0 /\ len_xor > 0

\* the field size check, one bit too generous
xorLengthFits_offByOne(length) == length <= FieldBits + 1

\* length does not exceed the field size in bits
xorLengthFits(length) == length <= FieldBits

\* the value the witness closure of xor computes
xorWitness(a, b) ==
    LET input1Bits == toBits(a)
        input2Bits == toBits(b)
        outputBits == [i \in 1..FieldBits |->
                          IF input1Bits[i] = input2Bits[i] THEN 0 ELSE 1]
    IN  fromBits(outputBits)

\* the pad length handed to xorRec
xorPadLength(length, len_xor) ==
    IF length % (4 * len_xor) # 0
    THEN length + 4 * len_xor - (length % (4 * len_xor))
    ELSE len_xor

xorThrow(c, message) == [c EXCEPT !.status = "Error", !.error = message]

\* the body of xor up to its call of xorRec
xorEnter(a, b, length, len_xor, mode) ==
    LET c == [IdleCall EXCEPT !.mode = mode, !.a = a, !.b = b,
                              !.length = length, !.len_xor = len_xor]
    IN  IF ~xorLengthsPositive(length, len_xor)
        THEN xorThrow(c, "Length exceeds maximum of 255 bits.")
        ELSE IF ~xorLengthFits(length)
        THEN xorThrow(c, "Length exceeds maximum field size in bits.")
        ELSE IF mode = "witness"
                /\ ~(fitsInBits(a.val, length) /\ fitsInBits(b.val, length))
        THEN xorThrow(c, "Word does not fit in bits")
        ELSE LET outputXor == IF mode = "witness"
                              THEN xorWitness(a.val, b.val) ELSE NoVal
             IN  [c EXCEPT !.status = "running",
                           !.input1 = a.val, !.input2 = b.val,
                           !.outputXor = outputXor, !.out = outputXor,
                           !.padLength = xorPadLength(length, len_xor),
                           !.depth = 1, !.witnesses = 1]

xor(r, a, b, length, len_xor, mode) ==
    /\ calls[r].status = "idle"
    /\ calls' = [calls EXCEPT ![r] = xorEnter(a, b, length, len_xor, mode)]

fieldBitsToFieldLE(f, start, stop) ==
    IF stop # -1 /\ stop <= start THEN Thrown
    ELSE IF stop > FieldBits THEN Thrown
    ELSE LET end == IF stop = -1 THEN FieldBits ELSE stop
         IN  fromBits([i \in 1..(end - start) |-> bitAt(f, start + i)])

\* Provable.witness(Field, () => fieldBitsToFieldLE(f, start, stop))
ofBits(mode, f, start, stop) ==
    IF mode = "witness" THEN fieldBitsToFieldLE(f, start, stop) ELSE NoVal

asProverNextVar(mode, current, var0, var1, var2, var3, len_xor) ==
    LET twoPowLen == TwoPow(len_xor)
        twoPow2Len == FieldMul(twoPowLen, twoPowLen)
        twoPow3Len == FieldMul(twoPow2Len, twoPowLen)
        twoPow4Len == FieldMul(twoPow3Len, twoPowLen)
    IN  IF mode = "witness"
        THEN FieldDiv(
                 FieldSub(
                     FieldSub(
                         FieldSub(FieldSub(current, var0), FieldMul(var1, twoPowLen)),
                         FieldMul(var2, twoPow2Len)),
                     FieldMul(var3, twoPow3Len)),
                 twoPow4Len)
        ELSE NoVal

\* the four nibbles of one operand of a chain row
xorNibbles(mode, f, len_xor) ==
    LET first == len_xor
        second == first + len_xor
        third == second + len_xor
        fourth == third + len_xor
    IN  <<ofBits(mode, f, 0, first), ofBits(mode, f, first, second),
          ofBits(mode, f, second, third), ofBits(mode, f, third, fourth)>>

\* the zero check taken as soon as both inputs have the value zero
xorRecIsZero_onValues(c) ==
    \/ c.padLength = 0
    \/ c.mode = "witness" /\ c.input1 = <<>> /\ c.input2 = <<>>

\* the branch of xorRec taken when no pad length is left
xorRecIsZero(c) == c.padLength = 0

\* xorRec, padLength == 0: the zero check closes the chain
xorRecZero(r) ==
    LET c == calls[r]
        nonZero == c.mode = "witness"
                   /\ (c.input1 # <<>> \/ c.input2 # <<>> \/ c.outputXor # <<>>)
    IN  /\ c.status = "running"
        /\ xorRecIsZero(c)
        /\ calls' = [calls EXCEPT ![r] =
              [c EXCEPT !.gates = Append(c.gates, "Zero"),
                        !.asserts = IF nonZero THEN c.asserts ELSE c.asserts + 3,
                        !.status = IF nonZero THEN "Error" ELSE "returned",
                        !.error = IF nonZero THEN "Field.assertEquals()" ELSE ""]]

\* xorRec, padLength != 0: one row of the chain, then the recursive call
xorRecChain(r) ==
    LET c == calls[r]
        in1 == xorNibbles(c.mode, c.input1, c.len_xor)
        in2 == xorNibbles(c.mode, c.input2, c.len_xor)
        out == xorNibbles(c.mode, c.outputXor, c.len_xor)
        threw == \E k \in 1..4 : Thrown \in {in1[k], in2[k], out[k]}
    IN  /\ c.status = "running"
        /\ ~xorRecIsZero(c)
        /\ c.depth < MaxStack
        /\ calls' = [calls EXCEPT ![r] =
              IF threw
              THEN xorThrow(c, "stop must be less than bit-length")
              ELSE [c EXCEPT
                      !.gates = Append(c.gates, "Xor16"),
                      !.witnesses = c.witnesses + 15,
                      !.input1 = asProverNextVar(c.mode, c.input1,
                                     in1[1], in1[2], in1[3], in1[4], c.len_xor),
                      !.input2 = asProverNextVar(c.mode, c.input2,
                                     in2[1], in2[2], in2[3], in2[4], c.len_xor),
                      !.outputXor = asProverNextVar(c.mode, c.outputXor,
                                     out[1], out[2], out[3], out[4], c.len_xor),
                      !.padLength = c.padLength - 4 * c.len_xor,
                      !.depth = c.depth + 1]]

\* xorRec recursing once more than the call stack holds
xorRecOverflow(r) ==
    LET c == calls[r]
    IN  /\ c.status = "running"
        /\ ~xorRecIsZero(c)
        /\ c.depth >= MaxStack
        /\ calls' = [calls EXCEPT ![r] =
              [c EXCEPT !.status = "RangeError",
                        !.error = "Maximum call stack size exceeded"]]

\* ------------------------------------------------------ Keccak constants

KECCAK_DIM == 5

KECCAK_ELL == 6

KECCAK_WORD == 2 ^ KECCAK_ELL

BYTES_PER_WORD == KECCAK_WORD \div 8

KECCAK_STATE_LENGTH_WORDS == KECCAK_DIM * KECCAK_DIM

KECCAK_STATE_LENGTH == KECCAK_STATE_LENGTH_WORDS * KECCAK_WORD

KECCAK_STATE_LENGTH_BYTES == KECCAK_STATE_LENGTH \div 8

\* the value whose set bits are at the given places (from 0)
OfSetBits(places) ==
    IF places = {} THEN <<>>
    ELSE [i \in 1..((CHOOSE m \in places : \A q \in places : q <= m) + 1) |->
             IF (i - 1) \in places THEN 1 ELSE 0]

ROT_TABLE ==
    << <<0, 36, 3, 41, 18>>,
       <<1, 44, 10, 45, 2>>,
       <<62, 6, 43, 15, 61>>,
       <<28, 55, 25, 21, 56>>,
       <<27, 20, 39, 8, 14>> >>

\* the 24 round constants, each by the places of its set bits
ROUND_CONSTANTS ==
    <<
      OfSetBits({0}),
      OfSetBits({1, 7, 15}),
      OfSetBits({1, 3, 7, 15, 63}),
      OfSetBits({15, 31, 63}),
      OfSetBits({0, 1, 3, 7, 15}),
      OfSetBits({0, 31}),
      OfSetBits({0, 7, 15, 31, 63}),
      OfSetBits({0, 3, 15, 63}),
      OfSetBits({1, 3, 7}),
      OfSetBits({3, 7}),
      OfSetBits({0, 3, 15, 31}),
      OfSetBits({1, 3, 31}),
      OfSetBits({0, 1, 3, 7, 15, 31}),
      OfSetBits({0, 1, 3, 7, 63}),
      OfSetBits({0, 3, 7, 15, 63}),
      OfSetBits({0, 1, 15, 63}),
      OfSetBits({1, 15, 63}),
      OfSetBits({7, 63}),
      OfSetBits({1, 3, 15}),
      OfSetBits({1, 3, 31, 63}),
      OfSetBits({0, 7, 15, 31, 63}),
      OfSetBits({7, 15, 63}),
      OfSetBits({0, 31}),
      OfSetBits({3, 15, 31, 63}) >>

\* ------------------------------------------------------------- padding

bytesToPad(rate, length) == rate - (length % rate)

\* a padding whose last byte is set to 0x80 instead of having 0x80 added
padWith_setsLast(message, extraBytes, nist) ==
    LET first == IF nist THEN FieldFrom(6) ELSE FieldFrom(1)
        last == FieldFrom(128)
        zeros == [i \in 1..extraBytes |-> FieldFrom(0)]
        withFirst == [zeros EXCEPT ![1] = first]
        padding == [withFirst EXCEPT ![extraBytes] = last]
    IN  message \o padding

\* the padding vector of extraBytes bytes appended to the message
padWith(message, extraBytes, nist) ==
    LET first == IF nist THEN FieldFrom(6) ELSE FieldFrom(1)
        last == FieldFrom(128)
        zeros == [i \in 1..extraBytes |-> FieldFrom(0)]
        withFirst == [zeros EXCEPT ![1] = first]
        padding == [withFirst EXCEPT ![extraBytes] = FieldAdd(withFirst[extraBytes], last)]
    IN  message \o padding

\* a padding that adds nothing to a message that already fills its blocks
pad_noExtraBlock(message, rate, nist) ==
    IF Len(message) > 0 /\ Len(message) % rate = 0 THEN message
    ELSE padWith(message, bytesToPad(rate, Len(message)), nist)

pad(message, rate, nist) ==
    padWith(message, bytesToPad(rate, Len(message)), nist)

\* ------------------------------------------------------ word/byte codec

\* array.length % size === 0
chunkOk(array, size) == Len(array) % size = 0

chunk(array, size) ==
    [i \in 1..(Len(array) \div size) |-> SubSeq(array, size * (i - 1) + 1, size * i)]

\* the reduce of bytesToWord from index idx (from 0) on
RECURSIVE bytesToWordFrom(_, _, _)
bytesToWordFrom(wordBytes, idx, acc) ==
    IF idx >= Len(wordBytes) THEN acc
    ELSE LET shift == TwoPow(8 * idx)
         IN  bytesToWordFrom(wordBytes, idx + 1,
                             FieldAdd(acc, FieldMul(wordBytes[idx + 1], shift)))

bytesToWord(wordBytes) == bytesToWordFrom(wordBytes, 0, FieldFrom(0))

bytesToWords(bytes) ==
    LET chunks == chunk(bytes, BYTES_PER_WORD)
    IN  [i \in 1..Len(chunks) |-> bytesToWord(chunks[i])]

\* (w >> BigInt(8 * k)) & 0x7fn: a mask one bit short
wordByte_mask7(w, k) == fromBits([i \in 1..7 |-> bitAt(w, 8 * k + i)])

\* (w >> BigInt(8 * k)) & 0xffn
wordByte(w, k) == fromBits([i \in 1..8 |-> bitAt(w, 8 * k + i)])

\* rangeCheck8 on a byte with a value
rangeCheck8Holds(byte) == BitsLess(byte, TwoPow(8))

\* wordToBytes without the check of the decomposition
wordToBytes_noDecomposition(mode, word) ==
    LET bytes == IF mode = "witness"
                 THEN [k \in 1..BYTES_PER_WORD |-> wordByte(word, k - 1)]
                 ELSE [k \in 1..BYTES_PER_WORD |-> NoVal]
    IN  IF mode = "witness" /\ \E k \in 1..BYTES_PER_WORD : ~rangeCheck8Holds(bytes[k])
        THEN [ok |-> FALSE, bytes |-> <<>>, error |-> "rangeCheck8"]
        ELSE [ok |-> TRUE, bytes |-> bytes, error |-> ""]

\* wordToBytes: the bytes returned, or the reason it threw
wordToBytes(mode, word) ==
    LET bytes == IF mode = "witness"
                 THEN [k \in 1..BYTES_PER_WORD |-> wordByte(word, k - 1)]
                 ELSE [k \in 1..BYTES_PER_WORD |-> NoVal]
    IN  IF mode = "witness" /\ \E k \in 1..BYTES_PER_WORD : ~rangeCheck8Holds(bytes[k])
        THEN [ok |-> FALSE, bytes |-> <<>>, error |-> "rangeCheck8"]
        ELSE IF mode = "witness" /\ bytesToWord(bytes) # word
        THEN [ok |-> FALSE, bytes |-> <<>>, error |-> "Field.assertEquals()"]
        ELSE [ok |-> TRUE, bytes |-> bytes, error |-> ""]

\* words.flatMap(wordToBytes), word by word from index i (from 1) on
RECURSIVE wordsToBytesFrom(_, _, _, _)
wordsToBytesFrom(mode, words, i, acc) ==
    IF i > Len(words) THEN [ok |-> TRUE, bytes |-> acc, error |-> ""]
    ELSE LET r == wordToBytes(mode, words[i])
         IN  IF ~r.ok THEN r
             ELSE wordsToBytesFrom(mode, words, i + 1, acc \o r.bytes)

wordsToBytes(mode, words) == wordsToBytesFrom(mode, words, 1, <<>>)

\* ---------------------------------------------------------- Keccak state

Coords == 0..(KECCAK_DIM - 1)

\* State.zeros()
zeros == [i \in 1..KECCAK_DIM |-> [j \in 1..KECCAK_DIM |-> FieldFrom(0)]]

\* Gadgets.rotate(field, bits, 'left') on a 64-bit word
rotate(mode, field, bits) ==
    IF mode = "witness"
    THEN Norm([k \in 1..KECCAK_WORD |->
                  bitAt(field, ((k - 1 + KECCAK_WORD - (bits % KECCAK_WORD))
                                   % KECCAK_WORD) + 1)])
    ELSE NoVal

\* the place of the lane of (i, j) with 2j for 3j
piRhoTarget_2j(i, j) == <<j, (2 * i + 2 * j) % KECCAK_DIM>>

\* stateB[j][(2 * i + 3 * j) % KECCAK_DIM]: the place of the lane of (i, j)
piRhoTarget(i, j) == <<j, (2 * i + 3 * j) % KECCAK_DIM>>

\* the loops of piRho from step n = 5 i + j on: stateB, and for each of its
\* lanes the number of times the loops have written it
RECURSIVE piRhoFrom(_, _, _, _)
piRhoFrom(mode, stateE, n, acc) ==
    IF n >= KECCAK_DIM * KECCAK_DIM THEN acc
    ELSE LET i == n \div KECCAK_DIM
             j == n % KECCAK_DIM
             x == piRhoTarget(i, j)[1] + 1
             y == piRhoTarget(i, j)[2] + 1
         IN  piRhoFrom(mode, stateE, n + 1,
                 [stateB |-> [acc.stateB EXCEPT ![x][y] =
                                 rotate(mode, stateE[i + 1][j + 1],
                                        ROT_TABLE[i + 1][j + 1])],
                  writes |-> [acc.writes EXCEPT ![x][y] = @ + 1]])

piRho(mode, state) ==
    piRhoFrom(mode, state, 0,
              [stateB |-> zeros,
               writes |-> [i \in 1..KECCAK_DIM |-> [j \in 1..KECCAK_DIM |-> 0]]])

\* State.toWords with the two indices exchanged
toWords_rowMajor(state) ==
    [n \in 1..KECCAK_STATE_LENGTH_WORDS |->
        LET p == CHOOSE q \in Coords \X Coords : KECCAK_DIM * q[1] + q[2] = n - 1
        IN  state[p[1] + 1][p[2] + 1]]

\* State.toWords: words[KECCAK_DIM * j + i] = state[i][j]
toWords(state) ==
    [n \in 1..KECCAK_STATE_LENGTH_WORDS |->
        LET p == CHOOSE q \in Coords \X Coords : KECCAK_DIM * q[2] + q[1] = n - 1
        IN  state[p[1] + 1][p[2] + 1]]

\* State.fromWords: state[i][j] = words[KECCAK_DIM * j + i]
fromWords(words) ==
    [i \in 1..KECCAK_DIM |-> [j \in 1..KECCAK_DIM |->
        words[KECCAK_DIM * (j - 1) + (i - 1) + 1]]]

\* the dimension asserts of State.xor
stateDimsOk(a) == Len(a) = KECCAK_DIM /\ Len(a[1]) = KECCAK_DIM

\* --------------------------------------------------------------- sponge

\* Math.floor(length / rate) + 1, for rate > 0
squeezes(length, rate) == (length \div rate) + 1

\* words.slice(0, length), for length >= 0
sliceFromStart(words, length) ==
    SubSeq(words, 1, IF length < Len(words) THEN length ELSE Len(words))

squeeze(state, length, rate) ==
    IF squeezes(length, rate) # 1
    THEN [ok |-> FALSE, words |-> <<>>, error |-> "squeezes should be 1"]
    ELSE [ok |-> TRUE, words |-> sliceFromStart(toWords(state), length), error |-> ""]

\* the asserts of absorb
absorbError(paddedMessage, capacity, rate) ==
    IF rate + capacity # KECCAK_STATE_LENGTH_WORDS
    THEN "invalid rate or capacity (rate + capacity should be 25)"
    ELSE IF Len(paddedMessage) % rate # 0
    THEN "invalid padded message length (should be multiple of rate)"
    ELSE ""

\* the block of absorb that starts at idx (from 0), as a state
absorbBlockState(paddedMessage, capacity, rate, idx) ==
    LET block == SubSeq(paddedMessage, idx + 1, idx + rate)
        paddedBlock == block \o [i \in 1..capacity |-> FieldFrom(0)]
    IN  fromWords(paddedBlock)

\* ----------------------------------------------------------------- hash

\* the parameter asserts of hash, with the length check left out
hashParamsError_noLengthCheck(length, capacity) ==
    IF ~(capacity > 0) THEN "capacity must be positive"
    ELSE IF ~(capacity < KECCAK_STATE_LENGTH_BYTES) THEN "capacity must be less than 200"
    ELSE IF ~(length > 0) THEN "length must be positive"
    ELSE IF capacity % BYTES_PER_WORD # 0 THEN "length must be a multiple of 8"
    ELSE ""

\* the parameter asserts of hash: the message of the first that fails
hashParamsError(length, capacity) ==
    IF ~(capacity > 0) THEN "capacity must be positive"
    ELSE IF ~(capacity < KECCAK_STATE_LENGTH_BYTES) THEN "capacity must be less than 200"
    ELSE IF ~(length > 0) THEN "length must be positive"
    ELSE IF capacity % BYTES_PER_WORD # 0 THEN "length must be a multiple of 8"
    ELSE IF length % BYTES_PER_WORD # 0 THEN "length must be a multiple of 8"
    ELSE ""

\* the rate of hash, in words, from the capacity in words
hashRate(capacityWords) == KECCAK_STATE_LENGTH_WORDS - capacityWords

IdleHash ==
    [status |-> "idle", error |-> "", entry |-> "", len |-> 0, mode |-> "emit",
     message |-> <<>>, length |-> 0, capacity |-> 0, nistVersion |-> FALSE,
     lengthWords |-> 0, capacityWords |-> 0, rate |-> 0,
     paddedBytes |-> <<>>, padded |-> <<>>, state |-> <<>>, blockState |-> <<>>,
     idx |-> 0, lane |-> <<0, 0>>, out |-> <<>>]

hashThrow(h, message) == [h EXCEPT !.status = "Error", !.error = message]

\* hash up to the first Gadgets.xor call of State.xor in absorb: the call
\* record, and the xor call it has entered (IdleCall when it threw before)
hashEnter(entry, len, message, length, capacity, nistVersion, mode) ==
    LET h == [IdleHash EXCEPT !.entry = entry, !.len = len, !.mode = mode,
                !.message = message, !.length = length, !.capacity = capacity,
                !.nistVersion = nistVersion]
        paramsError == hashParamsError(length, capacity)
    IN  IF paramsError # "" THEN <<hashThrow(h, paramsError), IdleCall>>
        ELSE
        LET capacityWords == capacity \div BYTES_PER_WORD
            lengthWords == length \div BYTES_PER_WORD
            rate == hashRate(capacityWords)
            paddedBytes == pad(message, rate * BYTES_PER_WORD, nistVersion)
            h1 == [h EXCEPT !.capacityWords = capacityWords,
                            !.lengthWords = lengthWords, !.rate = rate,
                            !.paddedBytes = paddedBytes]
        IN  IF ~chunkOk(paddedBytes, BYTES_PER_WORD)
            THEN <<hashThrow(h1, "invalid input length"), IdleCall>>
            ELSE
            LET padded == bytesToWords(paddedBytes)
                h2 == [h1 EXCEPT !.padded = padded]
            IN  IF Len(padded) % rate # 0
                THEN <<hashThrow(h2, "Invalid padded message length"), IdleCall>>
                ELSE IF absorbError(padded, capacityWords, rate) # ""
                THEN <<hashThrow(h2, absorbError(padded, capacityWords, rate)), IdleCall>>
                ELSE
                LET blockState == absorbBlockState(padded, capacityWords, rate, 0)
                    h3 == [h2 EXCEPT !.status = "running", !.state = zeros,
                                     !.blockState = blockState, !.idx = 0,
                                     !.lane = <<0, 0>>]
                IN  IF ~(stateDimsOk(zeros) /\ stateDimsOk(blockState))
                    THEN <<hashThrow(h3, "invalid dimensions (should be 5)"), IdleCall>>
                    ELSE <<h3, xorEnter([const |-> TRUE, val |-> zeros[1][1]],
                                        [const |-> FALSE, val |-> blockState[1][1]],
                                        KECCAK_WORD, 4, mode)>>

hash(entry, len, message, length, capacity, nistVersion, mode) ==
    LET e == hashEnter(entry, len, message, length, capacity, nistVersion, mode)
    IN  /\ hashCall.status = "idle"
        /\ hashCall' = e[1]
        /\ calls' = [calls EXCEPT ![1] = e[2]]
        /\ UNCHANGED <<unit, offchainState>>

nistSha3(len, message, mode) ==
    hash("nistSha3", len, message, len \div 8, len \div 4, TRUE, mode)

preNist(entry, len, message, mode) ==
    hash(entry, len, message, len \div 8, len \div 4, FALSE, mode)

ethereum(message, mode) == preNist("ethereum", 256, message, mode)

\* an error thrown by the Gadgets.xor call in progress ends the hash call
hashXorThrows ==
    /\ hashCall.status = "running"
    /\ calls[1].status \in {"Error", "RangeError"}
    /\ hashCall' = [hashCall EXCEPT !.status = calls[1].status,
                                    !.error = calls[1].error]
    /\ UNCHANGED <<calls, unit, offchainState>>

\* ------------------------------------- offchain state example contract

\* the accounts of the local test chain between which the test transfers
Addresses == {"sender", "receiver"}

\* an option of a UInt64: undefined for none, the value for some value
undefined == -1

orElse(option, defaultValue) ==
    IF option = undefined THEN defaultValue ELSE option

\* the state of the two offchain fields
fields(accounts, totalSupply) ==
    [accounts |-> accounts, totalSupply |-> totalSupply]

\* offchainState.emptyCommitments(): no account, no total supply, no
\* action pending; results holds, for each action of the last settlement,
\* the fields before and after it, credited counts the accepted createAccount
\* calls of an address
emptyCommitments ==
    [accounts |-> [a \in Addresses |-> undefined],
     totalSupply |-> undefined,
     actions |-> <<>>,
     results |-> <<>>,
     credited |-> [a \in Addresses |-> 0]]

\* field.get() and map.get(key) on the settled state
get(state, field, key) ==
    IF field = "accounts" THEN state.accounts[key] ELSE state.totalSupply

\* field.update({ from, to }) and map.update(key, { from, to }): the action
\* that is dispatched, accepted only where the field still holds from
update(field, key, from, to) ==
    [field |-> field, key |-> key, usesPreviousValue |-> TRUE,
     from |-> from, to |-> to]

\* the updates that createAccount dispatches, on the settled state it reads
createAccount_overwrite(state, address, amountToMint) ==
    LET totalSupplyOption == get(state, "totalSupply", "")
        totalSupply == orElse(totalSupplyOption, 0)
    IN  << [update("accounts", address, undefined, amountToMint)
               EXCEPT !.usesPreviousValue = FALSE],
           update("totalSupply", "", totalSupplyOption,
                  totalSupply + amountToMint) >>

createAccount(state, address, amountToMint) ==
    LET totalSupplyOption == get(state, "totalSupply", "")
        totalSupply == orElse(totalSupplyOption, 0)
    IN  << update("accounts", address, undefined, amountToMint),
           update("totalSupply", "", totalSupplyOption,
                  totalSupply + amountToMint) >>

\* the updates that transfer dispatches, on the settled state it reads; the
\* caller has checked that the sender exists and holds the amount
transfer_overwrite(state, from, to, amount) ==
    LET fromOption == get(state, "accounts", from)
        fromBalance == fromOption
        toOption == get(state, "accounts", to)
        toBalance == orElse(toOption, 0)
    IN  << update("accounts", from, fromOption, fromBalance - amount),
           [update("accounts", to, toOption, toBalance + amount)
               EXCEPT !.usesPreviousValue = FALSE] >>

transfer(state, from, to, amount) ==
    LET fromOption == get(state, "accounts", from)
        fromBalance == fromOption
        toOption == get(state, "accounts", to)
        toBalance == orElse(toOption, 0)
    IN  << update("accounts", from, fromOption, fromBalance - amount),
           update("accounts", to, toOption, toBalance + amount) >>

\* settlement: the updates of one method call from the i-th on, each checked
\* against the fields as the earlier ones of the call left them
RECURSIVE applyUpdates(_, _, _)
applyUpdates(state, updates, i) ==
    IF i > Len(updates) THEN [fields |-> state, isValidUpdate |-> TRUE]
    ELSE LET u == updates[i]
             next == IF u.field = "accounts"
                     THEN fields([state.accounts EXCEPT ![u.key] = u.to],
                                 state.totalSupply)
                     ELSE fields(state.accounts, u.to)
             rest == applyUpdates(next, updates, i + 1)
         IN  [fields |-> rest.fields,
              isValidUpdate |->
                  /\ updates[i].usesPreviousValue
                         => get(state, updates[i].field, updates[i].key)
                                = updates[i].from
                  /\ rest.isValidUpdate]

\* settlement: the updates of one method call are applied all or not at all
applyAction(state, action) ==
    LET r == applyUpdates(state, action.updates, 1)
    IN  [action |-> action, isValidUpdate |-> r.isValidUpdate, before |-> state,
         after |-> IF r.isValidUpdate THEN r.fields ELSE state]

\* settlement: the pending actions in the order of their dispatch, each on
\* the fields that the one before it left
RECURSIVE settleFrom(_, _, _)
settleFrom(state, actions, i) ==
    IF i > Len(actions) THEN <<>>
    ELSE LET r == applyAction(state, actions[i])
         IN  <<r>> \o settleFrom(r.after, actions, i + 1)

\* ------------------------------------------------------------ idle parts

IdleUnit ==
    [op |-> "idle", ok |-> TRUE, error |-> "", mode |-> "witness",
     bytes |-> <<>>, rate |-> 0, nist |-> FALSE, length |-> 0, state |-> <<>>,
     result |-> <<>>, status |-> "idle", other |-> <<>>, capacity |-> 0,
     count |-> 0, rc |-> <<>>, test |-> <<>>, cs |-> <<>>, failures |-> <<>>,
     negated |-> TRUE, twice |-> TRUE, writes |-> <<>>]

RunIds == {1, 2}

Init ==
    /\ calls = [r \in RunIds |-> IdleCall]
    /\ hashCall = IdleHash
    /\ unit = IdleUnit
    /\ offchainState = emptyCommitments

\* ------------------------------------------ one xor call, all its inputs

OperandValues == (0..MaxVal) \cup {v * 52429 : v \in 0..MaxVal}

WitnessOperands == {[const |-> FALSE, val |-> FieldFrom(v)] : v \in OperandValues}

EmitOperands == {[const |-> FALSE, val |-> NoVal]}

NibbleWidths == (-1)..MaxNibble

XorInputs(mode) ==
    IF mode = "witness"
    THEN [a : WitnessOperands, b : WitnessOperands,
          length : (-1)..MaxWitnessLength, len_xor : NibbleWidths]
    ELSE [a : EmitOperands, b : EmitOperands,
          length : (-1)..(FieldBits + 1), len_xor : NibbleWidths]

XorCall ==
    /\ calls[1].status = "idle"
    /\ \E mode \in XorModes : \E i \in XorInputs(mode) :
           xor(1, i.a, i.b, i.length, i.len_xor, mode)
    /\ UNCHANGED <<hashCall, unit, offchainState>>

XorRecZero == xorRecZero(1) /\ UNCHANGED <<hashCall, unit, offchainState>>

XorRecChain == xorRecChain(1) /\ UNCHANGED <<hashCall, unit, offchainState>>

XorRecOverflow == xorRecOverflow(1) /\ UNCHANGED <<hashCall, unit, offchainState>>

NextXor == XorCall \/ XorRecZero \/ XorRecChain \/ XorRecOverflow

SpecXor == Init /\ [][NextXor]_vars

\* ------------------------- two xor calls with the same static parameters

PairNibbleWidths == {1, 2, 64}

\* the operands of one run: b is a variable, a is a variable or a constant
PairOperands(mode) ==
    IF mode = "witness"
    THEN {[a |-> [const |-> ca, val |-> FieldFrom(v)],
           b |-> [const |-> FALSE, val |-> FieldFrom(2 * v)]] :
             v \in 0..MaxPairVal, ca \in BOOLEAN}
    ELSE {[a |-> [const |-> FALSE, val |-> NoVal],
           b |-> [const |-> FALSE, val |-> NoVal]]}
         \cup {[a |-> [const |-> TRUE, val |-> FieldFrom(v)],
                b |-> [const |-> FALSE, val |-> NoVal]] : v \in 0..MaxPairVal}

\* the first run
PairFirst ==
    /\ calls[1].status = "idle"
    /\ \E mode \in XorModes, length \in 1..MaxPairLength,
          len_xor \in PairNibbleWidths :
           \E o \in PairOperands(mode) : xor(1, o.a, o.b, length, len_xor, mode)
    /\ UNCHANGED <<hashCall, unit, offchainState>>

\* the second run starts when the first has ended, with its length and len_xor
PairSecond ==
    /\ calls[1].status \notin {"idle", "running"}
    /\ \E mode \in XorModes : \E o \in PairOperands(mode) :
           xor(2, o.a, o.b, calls[1].length, calls[1].len_xor, mode)
    /\ UNCHANGED <<hashCall, unit, offchainState>>

PairRecZero == (\E r \in RunIds : xorRecZero(r)) /\ UNCHANGED <<hashCall, unit, offchainState>>

PairRecChain == (\E r \in RunIds : xorRecChain(r)) /\ UNCHANGED <<hashCall, unit, offchainState>>

PairRecOverflow ==
    (\E r \in RunIds : xorRecOverflow(r)) /\ UNCHANGED <<hashCall, unit, offchainState>>

NextPair ==
    PairFirst \/ PairSecond \/ PairRecZero \/ PairRecChain \/ PairRecOverflow

SpecPair == Init /\ [][NextPair]_vars

\* ------------------------------ xor applied to the result of another xor

TwiceOperands(mode) ==
    IF mode = "witness"
    THEN {[const |-> FALSE, val |-> FieldFrom(v)] : v \in 0..MaxTwiceVal}
    ELSE EmitOperands

\* out = xor(a, b, length), with the default len_xor
TwiceFirst ==
    /\ calls[1].status = "idle"
    /\ \E mode \in XorModes, length \in 1..MaxTwiceLength :
           \E a \in TwiceOperands(mode), b \in TwiceOperands(mode) :
               xor(1, a, b, length, 4, mode)
    /\ UNCHANGED <<hashCall, unit, offchainState>>

\* xor(out, b, length), once the first call has returned out
TwiceSecond ==
    /\ calls[1].status = "returned"
    /\ xor(2, [const |-> FALSE, val |-> calls[1].out], calls[1].b,
           calls[1].length, 4, calls[1].mode)
    /\ UNCHANGED <<hashCall, unit, offchainState>>

NextTwice ==
    TwiceFirst \/ TwiceSecond \/ PairRecZero \/ PairRecChain \/ PairRecOverflow

SpecTwice == Init /\ [][NextTwice]_vars

\* --------------------------------------------- hash calls, all their inputs

\* the caller's message is an array of Field: nothing keeps a value below 256
ByteValues == {FieldFrom(1), FieldFrom(255), TwoPow(KECCAK_WORD)}

Messages == UNION {[1..n -> ByteValues] : n \in 0..MaxMessageLength}

ShaLengths == {224, 256, 384, 512}

NistSha3 ==
    /\ hashCall.status = "idle"
    /\ \E len \in ShaLengths, message \in Messages, mode \in XorModes :
           nistSha3(len, message, mode)

PreNist ==
    /\ hashCall.status = "idle"
    /\ \E len \in ShaLengths, message \in Messages, mode \in XorModes :
           preNist("preNist", len, message, mode)

Ethereum ==
    /\ hashCall.status = "idle"
    /\ \E message \in Messages, mode \in XorModes : ethereum(message, mode)

\* hash called directly, with any length and capacity in bytes
Hash ==
    /\ hashCall.status = "idle"
    /\ \E length \in (-1)..MaxHashLength,
          capacity \in (-1)..(KECCAK_STATE_LENGTH_BYTES + 1),
          nistVersion \in BOOLEAN, mode \in XorModes :
           hash("hash", 0, <<>>, length, capacity, nistVersion, mode)

\* A Gadgets.xor call of 64 bits gets padLength 4, which xorRec never brings
\* to 0: the zero-check branch and the return of the call are never enabled
\* in a hash call, and the steps of State.xor and absorb that would follow the
\* return are not steps of this specification.
NextHash ==
    \/ NistSha3 \/ PreNist \/ Ethereum \/ Hash
    \/ XorRecChain \/ XorRecOverflow
    \/ hashXorThrows

SpecHash == Init /\ [][NextHash]_vars

\* the Gadgets.xor call of a running hash call never reaches its zero check
HashXorNeverAtZero ==
    (hashCall.status = "running" /\ calls[1].status = "running")
    => ~xorRecIsZero(calls[1])

\* ------------------------------------------ pad, the codec, squeeze alone

PadMessages ==
    {[i \in 1..n |-> FieldFrom((i * m) % 256)] : n \in 0..MaxPadLength, m \in {1, 85}}

PadCall ==
    /\ unit.op = "idle"
    /\ \E message \in PadMessages, rate \in 1..MaxPadRate, nist \in BOOLEAN :
           unit' = [IdleUnit EXCEPT !.op = "pad", !.bytes = message, !.rate = rate,
                                    !.nist = nist,
                                    !.result = pad(message, rate, nist)]
    /\ UNCHANGED <<calls, hashCall, offchainState>>

SpecPad == Init /\ [][PadCall]_vars

CodecByteValues == {1, 255}

\* byte arrays that are zero but for two places
CodecBytes ==
    {<<>>} \cup
    {[i \in 1..n |-> IF i = p THEN FieldFrom(v)
                     ELSE IF i = q THEN FieldFrom(w) ELSE FieldFrom(0)] :
        <<n, p, q>> \in {t \in (1..MaxCodecLength) \X (1..MaxCodecLength) \X (1..MaxCodecLength) :
                            t[2] <= t[3] /\ t[3] <= t[1]},
        v \in CodecByteValues, w \in CodecByteValues}

\* wordsToBytes(bytesToWords(bytes))
roundTrip(mode, bytes) ==
    IF ~chunkOk(bytes, BYTES_PER_WORD)
    THEN [ok |-> FALSE, bytes |-> <<>>, error |-> "invalid input length"]
    ELSE wordsToBytes(mode, bytesToWords(bytes))

RoundTripCall ==
    /\ unit.op = "idle"
    /\ \E bytes \in CodecBytes, mode \in XorModes :
           LET r == roundTrip(mode, bytes)
           IN  unit' = [IdleUnit EXCEPT !.op = "roundTrip", !.bytes = bytes,
                                        !.mode = mode, !.ok = r.ok,
                                        !.error = r.error, !.result = r.bytes]
    /\ UNCHANGED <<calls, hashCall, offchainState>>

SpecCodec == Init /\ [][RoundTripCall]_vars

\* wordToBytes on words with one or two bits set, below and above 2^64, and
\* on zero
WordToBytesCall ==
    /\ unit.op = "idle"
    /\ \E word \in {FieldFrom(0)}
                    \cup {FieldAdd(TwoPow(i), TwoPow(j)) :
                              i \in 0..MaxWordBit, j \in {0, 8, KECCAK_WORD - 1}},
          mode \in XorModes :
           LET r == wordToBytes(mode, word)
           IN  unit' = [IdleUnit EXCEPT !.op = "wordToBytes", !.other = word,
                                        !.mode = mode, !.ok = r.ok,
                                        !.error = r.error, !.result = r.bytes]
    /\ UNCHANGED <<calls, hashCall, offchainState>>

SpecWordToBytes == Init /\ [][WordToBytesCall]_vars

\* states whose 25 lanes differ
SqueezeStates ==
    {[i \in 1..KECCAK_DIM |-> [j \in 1..KECCAK_DIM |->
         FieldFrom(base + KECCAK_DIM * (i - 1) + j)]] : base \in {0, 1000}}

SqueezeCall ==
    /\ unit.op = "idle"
    /\ \E state \in SqueezeStates, length \in (-1)..MaxSqueezeLength,
          rate \in 1..MaxSqueezeRate :
           LET r == squeeze(state, length, rate)
           IN  unit' = [IdleUnit EXCEPT !.op = "squeeze", !.state = state,
                                        !.length = length, !.rate = rate,
                                        !.ok = r.ok, !.error = r.error,
                                        !.result = r.words]
    /\ UNCHANGED <<calls, hashCall, offchainState>>

SpecSqueeze == Init /\ [][SqueezeCall]_vars

\* -------------------------------------- State.xor, absorb, round alone

\* a call that is inside Gadgets.xor, or has ended
unitCall(op, mode) ==
    [IdleUnit EXCEPT !.op = op, !.mode = mode, !.status = "running"]

unitThrow(u, message) ==
    [u EXCEPT !.status = "Error", !.ok = FALSE, !.error = message]

\* Gadgets.xor(value, other, 64), entered
gadgetsXor(value, other, mode) ==
    xorEnter([const |-> FALSE, val |-> value], [const |-> FALSE, val |-> other],
             64, 4, mode)

\* State.xor up to its first Gadgets.xor call, on lanes [0][0]: the call
\* record, and the xor call it has entered (IdleCall when an assert threw)
stateXorEnter(a, b, mode) ==
    LET u == [unitCall("State.xor", mode) EXCEPT !.state = a, !.other = b]
    IN  IF ~stateDimsOk(a)
        THEN <<unitThrow(u, "invalid a dimensions (should be 5)"), IdleCall>>
        ELSE IF ~stateDimsOk(b)
        THEN <<unitThrow(u, "invalid b dimensions (should be 5)"), IdleCall>>
        ELSE <<u, gadgetsXor(a[1][1], b[1][1], mode)>>

\* absorb up to the first Gadgets.xor call of its first State.xor; with no
\* block to absorb it returns the zero state
absorbEnter(paddedMessage, capacity, rate, mode) ==
    LET u == [unitCall("absorb", mode) EXCEPT !.bytes = paddedMessage,
                                               !.capacity = capacity,
                                               !.rate = rate]
        error == absorbError(paddedMessage, capacity, rate)
    IN  IF error # "" THEN <<unitThrow(u, error), IdleCall>>
        ELSE IF ~(0 < Len(paddedMessage))
        THEN <<[u EXCEPT !.status = "returned", !.result = zeros], IdleCall>>
        ELSE LET blockState == absorbBlockState(paddedMessage, capacity, rate, 0)
                 e == stateXorEnter(zeros, blockState, mode)
             IN  <<[u EXCEPT !.state = zeros, !.other = blockState,
                             !.status = e[1].status, !.ok = e[1].ok,
                             !.error = e[1].error], e[2]>>

\* round up to the first Gadgets.xor call of theta, the reduce of row 0
roundEnter(state, rc, mode) ==
    LET u == [unitCall("round", mode) EXCEPT !.state = state, !.rc = rc]
    IN  <<u, gadgetsXor(state[1][1], state[1][2], mode)>>

\* an error thrown by the Gadgets.xor call in progress ends the call
unitXorThrows ==
    /\ unit.status = "running"
    /\ calls[1].status \in {"Error", "RangeError"}
    /\ unit' = [unit EXCEPT !.status = calls[1].status, !.ok = FALSE,
                            !.error = calls[1].error]
    /\ UNCHANGED <<calls, hashCall, offchainState>>

\* matrices of rows lanes each, lane [i][j] holding base + i + j (mod 2)
Matrix(rows, lanes, base) ==
    [i \in 1..rows |-> [j \in 1..lanes |-> FieldFrom(base + ((i + j) % 2))]]

\* a matrix whose row 0 has five lanes and whose row 2 has four
Ragged(base) ==
    [Matrix(KECCAK_DIM, KECCAK_DIM, base) EXCEPT ![3] = SubSeq(@, 1, KECCAK_DIM - 1)]

Matrices ==
    {Matrix(KECCAK_DIM, KECCAK_DIM, base) : base \in 0..MaxLane}
    \cup {Matrix(KECCAK_DIM - 1, KECCAK_DIM, 0), Matrix(KECCAK_DIM, KECCAK_DIM - 1, 0),
          Matrix(0, 0, 0), Ragged(0)}

StateXorCall ==
    /\ unit.op = "idle"
    /\ \E a \in Matrices, b \in Matrices, mode \in XorModes :
           LET e == stateXorEnter(a, b, mode)
           IN  /\ unit' = e[1]
               /\ calls' = [calls EXCEPT ![1] = e[2]]
    /\ UNCHANGED <<hashCall, offchainState>>

NextStateXor == StateXorCall \/ XorRecChain \/ XorRecOverflow \/ unitXorThrows

SpecStateXor == Init /\ [][NextStateXor]_vars

AbsorbMessages == {[k \in 1..n |-> FieldFrom(k)] : n \in 0..MaxAbsorbLength}

AbsorbCall ==
    /\ unit.op = "idle"
    /\ \E paddedMessage \in AbsorbMessages, rate \in 1..MaxAbsorbRate,
          capacity \in (KECCAK_STATE_LENGTH_WORDS - MaxAbsorbRate - 1)
                           ..KECCAK_STATE_LENGTH_WORDS,
          mode \in XorModes :
           LET e == absorbEnter(paddedMessage, capacity, rate, mode)
           IN  /\ unit' = e[1]
               /\ calls' = [calls EXCEPT ![1] = e[2]]
    /\ UNCHANGED <<hashCall, offchainState>>

NextAbsorb == AbsorbCall \/ XorRecChain \/ XorRecOverflow \/ unitXorThrows

SpecAbsorb == Init /\ [][NextAbsorb]_vars

RoundCall ==
    /\ unit.op = "idle"
    /\ \E base \in 0..MaxLane, k \in 1..Len(ROUND_CONSTANTS), mode \in XorModes :
           LET e == roundEnter(Matrix(KECCAK_DIM, KECCAK_DIM, base),
                               ROUND_CONSTANTS[k], mode)
           IN  /\ unit' = e[1]
               /\ calls' = [calls EXCEPT ![1] = e[2]]
    /\ UNCHANGED <<hashCall, offchainState>>

NextRound == RoundCall \/ XorRecChain \/ XorRecOverflow \/ unitXorThrows

SpecRound == Init /\ [][NextRound]_vars

\* piRho on states whose lanes each hold one bit, but for one lane that
\* holds two
PiRhoCall ==
    /\ unit.op = "idle"
    /\ \E state \in {[i \in 1..KECCAK_DIM |-> [j \in 1..KECCAK_DIM |->
                          IF KECCAK_DIM * (i - 1) + (j - 1) = marked
                          THEN FieldAdd(TwoPow(base), TwoPow(KECCAK_WORD - 1))
                          ELSE TwoPow((base + KECCAK_DIM * i + j)
                                          % (KECCAK_WORD - 1))]] :
                         base \in 0..MaxPiRhoBit,
                         marked \in 0..(KECCAK_DIM * KECCAK_DIM - 1)},
          mode \in XorModes :
           LET r == piRho(mode, state)
           IN  unit' = [IdleUnit EXCEPT !.op = "piRho", !.mode = mode,
                                        !.state = state, !.result = r.stateB,
                                        !.writes = r.writes]
    /\ UNCHANGED <<calls, hashCall, offchainState>>

SpecPiRho == Init /\ [][PiRhoCall]_vars

\* ------------------------------------------- constraint system tests

GateTypes == {"Generic", "Rot64"}

\* the gate lists of at most n gates
GateLists(n) == UNION {[1..k -> GateTypes] : k \in 0..n}

\* toGatess: gateTypes is a string, a list of strings or a list of lists
toGatess(gateTypes) ==
    IF gateTypes.form = "string" THEN << <<gateTypes.value>> >>
    ELSE IF gateTypes.form = "lists" /\ gateTypes.value # <<>>
    THEN gateTypes.value
    ELSE <<gateTypes.value>>

\* expectedGatess[i][j], undefined outside the list
expectedGate(expectedGatess, i, j) ==
    IF j < Len(expectedGatess[i + 1]) THEN expectedGatess[i + 1][j + 1]
    ELSE "undefined"

\* the loop of contains' run from gate k (from 1) on, with its i and j
RECURSIVE containsLoop(_, _, _, _, _)
containsLoop(expectedGatess, gates, k, i, j) ==
    IF k > Len(gates) THEN FALSE
    ELSE IF gates[k] = expectedGate(expectedGatess, i, j)
    THEN IF j + 1 = Len(expectedGatess[i + 1])
         THEN IF i + 1 = Len(expectedGatess) THEN TRUE
              ELSE containsLoop(expectedGatess, gates, k + 1, i + 1, 0)
         ELSE containsLoop(expectedGatess, gates, k + 1, i, j + 1)
    ELSE IF gates[k] = expectedGate(expectedGatess, i, 0)
    THEN containsLoop(expectedGatess, gates, k + 1, i, 1)
    ELSE containsLoop(expectedGatess, gates, k + 1, i, 0)

\* the run function of a base test, by the function that made the test
baseRun(f, cs) ==
    IF f.op = "contains" THEN containsLoop(f.gates, cs, 1, 0, 0)
    ELSE IF f.op = "equals" THEN Len(cs) = Len(f.gates[1]) /\ cs = f.gates[1]
    ELSE Len(cs) = 0

RECURSIVE flat(_)
flat(lists) == IF lists = <<>> THEN <<>> ELSE Head(lists) \o flat(Tail(lists))

\* JSON.stringify of a list of gate lists, token by token
stringify(gatess) ==
    <<"[">> \o flat([i \in 1..Len(gatess) |-> <<"[">> \o gatess[i] \o <<"]">>])
    \o <<"]">>

\* a base test has no kind; its run function is kept by the function that
\* made it and the gates it closes over, its label token by token
contains(gates) ==
    LET expectedGatess == toGatess(gates)
    IN  [kind |-> "undefined", run |-> [op |-> "contains", gates |-> expectedGatess],
         label |-> <<"contains">> \o stringify(expectedGatess)]

equals(gates) ==
    [kind |-> "undefined", run |-> [op |-> "equals", gates |-> <<gates>>],
     label |-> <<"equals">> \o stringify(<<gates>>)]

isEmpty ==
    [kind |-> "undefined", run |-> [op |-> "isEmpty", gates |-> <<>>],
     label |-> <<"cs is empty">>]

\* { kind: 'not', ...test }: the kind of test, when it has one, replaces 'not'
not(test) ==
    IF test.kind = "undefined" THEN [test EXCEPT !.kind = "not"] ELSE test

and(tests) ==
    [kind |-> "and", tests |-> tests,
     label |-> <<"and", "(">> \o flat([k \in 1..Len(tests) |-> tests[k].label])
               \o <<")">>]

or(tests) ==
    [kind |-> "or", tests |-> tests,
     label |-> <<"or", "(">> \o flat([k \in 1..Len(tests) |-> tests[k].label])
               \o <<")">>]

RECURSIVE run(_, _)
run(test, cs) ==
    IF test.kind = "undefined"
    THEN LET ok == baseRun(test.run, cs)
         IN  [ok |-> ok, failures |-> IF ok THEN <<>> ELSE <<test.label>>]
    ELSE IF test.kind = "not"
    THEN LET ok == baseRun(test.run, cs)
         IN  [ok |-> ~ok,
              failures |-> IF ok THEN << <<"not", "(">> \o test.label \o <<")">> >>
                           ELSE <<>>]
    ELSE LET results == [k \in 1..Len(test.tests) |-> run(test.tests[k], cs)]
             ok == IF test.kind = "and"
                   THEN \A k \in 1..Len(results) : results[k].ok
                   ELSE \E k \in 1..Len(results) : results[k].ok
         IN  [ok |-> ok,
              failures |-> IF ok THEN <<>>
                           ELSE flat([k \in 1..Len(results) |-> results[k].failures])]

\* what is handed to contains: a gate type, a gate list, a list of gate lists
ContainsForms == {"string", "list", "lists"}

ContainsArguments(form) ==
    IF form = "string" THEN GateTypes
    ELSE IF form = "list" THEN GateLists(MaxPatternLength)
    ELSE {<<>>} \cup {<<l>> : l \in GateLists(MaxRunLength)}
         \cup {<<l, m>> : l \in GateLists(MaxRunLength),
                          m \in GateLists(MaxRunLength)}

ContainsCall ==
    /\ unit.op = "idle"
    /\ \E form \in ContainsForms, cs \in GateLists(MaxCsLength) :
         \E gates \in ContainsArguments(form) :
           LET test == contains([form |-> form, value |-> gates])
               r == run(test, cs)
           IN  unit' = [IdleUnit EXCEPT !.op = "contains", !.test = test,
                                        !.cs = cs, !.ok = r.ok,
                                        !.failures = r.failures]
    /\ UNCHANGED <<calls, hashCall, offchainState>>

SpecContains == Init /\ [][ContainsCall]_vars

BaseTests == {contains([form |-> "string", value |-> "Rot64"]),
              equals(<<"Generic">>), isEmpty}

\* the base tests and the tests that one use of not, and, or builds of them,
\* and and or of no, one or two tests
Tests ==
    LET TestLists == {<<>>} \cup {<<t>> : t \in BaseTests}
                     \cup {<<t, u>> : t \in BaseTests, u \in BaseTests}
    IN  BaseTests \cup {not(t) : t \in BaseTests}
        \cup {and(l) : l \in TestLists}
        \cup {or(l) : l \in TestLists}

\* run on t, on not(t) and on not(not(t))
NotCall ==
    /\ unit.op = "idle"
    /\ \E test \in Tests, cs \in GateLists(MaxCsLength) :
           LET r == run(test, cs)
           IN  unit' = [IdleUnit EXCEPT !.op = "not", !.test = test, !.cs = cs,
                                        !.ok = r.ok, !.failures = r.failures,
                                        !.negated = run(not(test), cs).ok,
                                        !.twice = run(not(not(test)), cs).ok]
    /\ UNCHANGED <<calls, hashCall, offchainState>>

SpecNot == Init /\ [][NotCall]_vars

\* run on the tests above and on the tests that one more use of not, and,
\* or builds
RunCall ==
    /\ unit.op = "idle"
    /\ \E test \in Tests \cup {not(t) : t \in Tests}
                    \cup {and(<<t>>) : t \in Tests} \cup {or(<<t>>) : t \in Tests}
                    \cup {and(<<t, u>>) : t \in Tests, u \in BaseTests}
                    \cup {or(<<t, u>>) : t \in Tests, u \in BaseTests},
          cs \in GateLists(MaxCsLength) :
           LET r == run(test, cs)
           IN  unit' = [IdleUnit EXCEPT !.op = "run", !.test = test, !.cs = cs,
                                        !.ok = r.ok, !.failures = r.failures]
    /\ UNCHANGED <<calls, hashCall, offchainState>>

SpecRun == Init /\ [][RunCall]_vars

\* ----------------------------------------- the example contract's methods

\* a method call dispatches its updates as one action
dispatch(method, from, to, amount, updates) ==
    /\ Len(offchainState.actions) < MaxActions
    /\ offchainState' =
           [offchainState EXCEPT
               !.actions = Append(@, [method |-> method, from |-> from,
                                      to |-> to, amount |-> amount,
                                      updates |-> updates]),
               !.results = <<>>]
    /\ UNCHANGED <<calls, hashCall, unit>>

CreateAccountCall ==
    \E address \in Addresses, amountToMint \in 0..MaxAmount :
        /\ orElse(offchainState.totalSupply, 0) + amountToMint <= MaxSupply
        /\ dispatch("createAccount", "", address, amountToMint,
                    createAccount(offchainState, address, amountToMint))

\* assertSome('sender account exists') and UInt64.sub fail the call
TransferCall ==
    \E from \in Addresses, to \in Addresses, amount \in 0..MaxAmount :
        /\ offchainState.accounts[from] # undefined
        /\ offchainState.accounts[from] >= amount
        /\ dispatch("transfer", from, to, amount,
                    transfer(offchainState, from, to, amount))

\* createSettlementProof and settle: all pending actions
SettleCall ==
    /\ offchainState.actions # <<>>
    /\ LET results == settleFrom(fields(offchainState.accounts,
                                        offchainState.totalSupply),
                                 offchainState.actions, 1)
           last == results[Len(results)].after
       IN  offchainState' =
               [accounts |-> last.accounts,
                totalSupply |-> last.totalSupply,
                actions |-> <<>>,
                results |-> results,
                credited |->
                    [a \in Addresses |->
                        offchainState.credited[a]
                        + Cardinality({i \in 1..Len(results) :
                              /\ results[i].action.method = "createAccount"
                              /\ results[i].action.to = a
                              /\ results[i].isValidUpdate})]]
    /\ UNCHANGED <<calls, hashCall, unit>>

NextContract == CreateAccountCall \/ TransferCall \/ SettleCall

SpecContract == Init /\ [][NextContract]_vars

\* ------------------------------------------------ properties of one xor call

RECURSIVE BitsToNat(_)
BitsToNat(bits) ==
    IF bits = <<>> THEN 0 ELSE Head(bits) + 2 * BitsToNat(Tail(bits))

\* bitwise exclusive or of two naturals
RECURSIVE NatXor(_, _)
NatXor(m, n) ==
    IF m = 0 THEN n
    ELSE IF n = 0 THEN m
    ELSE ((m + n) % 2) + 2 * NatXor(m \div 2, n \div 2)

XorEnded(c) == c.status \notin {"idle", "running"}

XorStaticsValid(c) == c.length \in 1..FieldBits /\ c.len_xor >= 1

\* no value of the chain leaves the modelled range of the field arithmetic
XorValuesModelled ==
    \A r \in RunIds :
        NotModelled \notin {calls[r].input1, calls[r].input2, calls[r].outputXor}

\* C1: for every length in 1..255 and all a, b < 2^length, xor(a, b, length)
\* with the default nibble width 4 completes and returns the bitwise XOR of
\* a and b.
C1_XorReturnsXor ==
    LET c == calls[1]
    IN  (XorEnded(c) /\ XorStaticsValid(c) /\ c.len_xor = 4
            /\ c.error # "Word does not fit in bits")
        => /\ c.status = "returned"
           /\ c.mode = "witness" =>
                  c.out = FieldFrom(NatXor(BitsToNat(c.a.val), BitsToNat(c.b.val)))

\* the chain C3 describes: ceil(length / (4 * len_xor)) Xor16 rows, then Zero
ExpectedChain(length, len_xor) ==
    LET n == (length + 4 * len_xor - 1) \div (4 * len_xor)
    IN  [i \in 1..(n + 1) |-> IF i <= n THEN "Xor16" ELSE "Zero"]

\* C3: for every length in 1..255 and nibble width >= 1 the chain terminates
\* and the gates emitted are exactly ceil(length / (4 * nibbleWidth)) XOR-chain
\* gates followed by exactly one zero-check gate, emitted last.
C3_ChainGates ==
    LET c == calls[1]
    IN  (XorEnded(c) /\ XorStaticsValid(c)
            /\ c.error # "Word does not fit in bits")
        => /\ c.status = "returned"
           /\ c.gates = ExpectedChain(c.length, c.len_xor)

XorStaticsRejected(c) ==
    c.length <= 0 \/ c.len_xor <= 0 \/ c.length > FieldBits

\* C9: xor throws, without allocating any witness or emitting any gate,
\* whenever length <= 0, nibbleWidth <= 0 or length > 255.
C9_XorRejectsBadLengths ==
    LET c == calls[1]
    IN  (c.status # "idle" /\ XorStaticsRejected(c))
        => c.status = "Error" /\ c.witnesses = 0 /\ c.gates = <<>>

\* a call with a length above the field width, a call with a length <= 0 and
\* a call with a nibble width <= 0 have each thrown
C9_Witness ==
    LET c == calls[1]
    IN  /\ c.status = "Error" /\ c.witnesses = 0 /\ c.gates = <<>>
        /\ c.length > FieldBits /\ c.len_xor >= 1

\* the same properties away from the lengths that are multiples of 4 * len_xor
XorCorrectOffMultiples ==
    LET c == calls[1]
    IN  (XorEnded(c) /\ XorStaticsValid(c) /\ c.length % (4 * c.len_xor) # 0
            /\ c.error # "Word does not fit in bits")
        => /\ c.status = "returned"
           /\ c.gates = ExpectedChain(c.length, c.len_xor)
           /\ c.mode = "witness" =>
                  c.out = FieldFrom(NatXor(BitsToNat(c.a.val), BitsToNat(c.b.val)))

\* the smallest multiple of 4 * len_xor that is >= length
SmallestMultiple(length, len_xor) ==
    ((length + 4 * len_xor - 1) \div (4 * len_xor)) * (4 * len_xor)

\* C17: for every length in 1..255 and nibble width >= 1, the padLength that
\* xor passes to the chain is the smallest multiple of 4 * nibbleWidth that is
\* >= length, and it stays a non-negative multiple of 4 * nibbleWidth at
\* every recursion step.
C17_PadLength ==
    LET c == calls[1]
    IN  (c.depth >= 1 /\ XorStaticsValid(c))
        => /\ c.padLength >= 0
           /\ c.padLength % (4 * c.len_xor) = 0
           /\ c.depth = 1 => c.padLength = SmallestMultiple(c.length, c.len_xor)

\* off the multiples of 4 * len_xor the pad length is as C17 has it
PadLengthOffMultiples ==
    LET c == calls[1]
    IN  (c.depth >= 1 /\ XorStaticsValid(c) /\ c.length % (4 * c.len_xor) # 0)
        => /\ c.padLength >= 0
           /\ c.padLength % (4 * c.len_xor) = 0
           /\ c.depth = 1 => c.padLength = SmallestMultiple(c.length, c.len_xor)

\* an operand with a value of more than length bits
TooWide(c) ==
    c.mode = "witness" /\ (Len(c.a.val) > c.length \/ Len(c.b.val) > c.length)

\* C23: the check that a and b fit in length bits runs only in the witness
\* closures: a call that only emits constraints never fails on it and ends
\* with the gates of its length, and a call that computes the witness fails
\* with 'Word does not fit in bits' when a >= 2^length or b >= 2^length.
C23_FitsOnlyInWitness ==
    LET c == calls[1]
    IN  (XorEnded(c) /\ XorStaticsValid(c))
        => /\ c.mode = "emit"
              => /\ c.status = "returned"
                 /\ c.gates = ExpectedChain(c.length, c.len_xor)
           /\ TooWide(c)
              => /\ c.status = "Error"
                 /\ c.error = "Word does not fit in bits"
                 /\ c.gates = <<>>
           /\ c.error = "Word does not fit in bits" => TooWide(c)

\* the same away from the lengths that are multiples of 4 * len_xor
FitsOnlyInWitnessOffMultiples ==
    LET c == calls[1]
    IN  (XorEnded(c) /\ XorStaticsValid(c) /\ c.length % (4 * c.len_xor) # 0)
        => /\ c.mode = "emit"
              => /\ c.status = "returned"
                 /\ c.gates = ExpectedChain(c.length, c.len_xor)
           /\ TooWide(c)
              => /\ c.status = "Error"
                 /\ c.error = "Word does not fit in bits"
                 /\ c.gates = <<>>
           /\ c.error = "Word does not fit in bits" => TooWide(c)

\* at every length the check fails in the witness closures and only there
FitsFailsOnlyInWitness ==
    LET c == calls[1]
    IN  (c.status # "idle" /\ XorStaticsValid(c))
        => (TooWide(c) <=> c.error = "Word does not fit in bits")

\* ------------------------------------------ properties of two xor calls

IsPrefix(s, t) == Len(s) <= Len(t) /\ SubSeq(t, 1, Len(s)) = s

\* the runs that no throw of a witness closure or an assertion cut short
XorRanOut(c) == c.status \in {"returned", "RangeError"}

TwiceInRange ==
    /\ calls[1].mode = "witness"
    /\ fitsInBits(calls[1].a.val, calls[1].length)
    /\ fitsInBits(calls[1].b.val, calls[1].length)

\* C12: for every length in 1..255 and all a, b < 2^length,
\* xor(xor(a, b, length), b, length) == a, and xor(a, 0, length) == a.
C12_XorSelfInverse ==
    (XorEnded(calls[1]) /\ TwiceInRange)
    => /\ calls[1].status = "returned"
       /\ calls[1].b.val = <<>> => calls[1].out = calls[1].a.val
       /\ XorEnded(calls[2])
          => /\ calls[2].status = "returned"
             /\ calls[2].out = calls[1].a.val

\* off the multiples of 16 the two identities hold
XorSelfInverseOffMultiples ==
    (XorEnded(calls[1]) /\ TwiceInRange /\ calls[1].length % 16 # 0)
    => /\ calls[1].status = "returned"
       /\ calls[1].b.val = <<>> => calls[1].out = calls[1].a.val
       /\ XorEnded(calls[2])
          => /\ calls[2].status = "returned"
             /\ calls[2].out = calls[1].a.val

\* ------------------------------- properties of State.xor, absorb, round

UnitEnded == unit.status \notin {"idle", "running"}

UnitThrew == unit.status \in {"Error", "RangeError"}

\* the bitwise XOR of two 64-bit lanes
LaneXor(x, y) ==
    Norm([i \in 1..64 |-> (bitAt(x, i) + bitAt(y, i)) % 2])

\* the rotation to the left of a 64-bit lane by n bits
LaneRotl(x, n) ==
    Norm([i \in 1..64 |-> bitAt(x, ((i - 1 + 64 - (n % 64)) % 64) + 1)])

\* (NOT x) AND y on 64-bit lanes
LaneNotAnd(x, y) ==
    Norm([i \in 1..64 |-> (1 - bitAt(x, i)) * bitAt(y, i)])

Is5x5(m) == Len(m) = 5 /\ \A i \in 1..5 : Len(m[i]) = 5

\* C11: State.xor(a, b) throws whenever a or b is not a 5x5 matrix (not
\* exactly 5 rows, or any row not of exactly 5 lanes), and otherwise returns a
\* new 5x5 matrix whose lane [i][j] is the 64-bit XOR of a[i][j] and b[i][j].
C11_StateXor ==
    (unit.op = "State.xor" /\ UnitEnded)
    => IF ~Is5x5(unit.state) \/ ~Is5x5(unit.other)
       THEN UnitThrew
       ELSE /\ unit.status = "returned"
            /\ Is5x5(unit.result)
            /\ \A i \in 1..5, j \in 1..5 :
                  unit.result[i][j] = LaneXor(unit.state[i][j], unit.other[i][j])

\* index i (from 0) taken modulo 5, as a place from 1
Wrap(i) == ((i + 5) % 5) + 1

ThetaReference(A) ==
    LET C == [i \in 1..5 |->
                 LaneXor(LaneXor(LaneXor(LaneXor(A[i][1], A[i][2]), A[i][3]),
                                 A[i][4]), A[i][5])]
        D == [i \in 1..5 |-> LaneXor(C[Wrap(i - 2)], LaneRotl(C[Wrap(i)], 1))]
    IN  [i \in 1..5 |-> [j \in 1..5 |-> LaneXor(A[i][j], D[i])]]

\* B[j][(2i + 3j) mod 5] = rotl(E[i][j], ROT[i][j])
PiRhoReference(E) ==
    [x \in 1..5 |-> [y \in 1..5 |->
        LET i == CHOOSE k \in 1..5 : Wrap(2 * (k - 1) + 3 * (x - 1)) = y
        IN  LaneRotl(E[i][x], ROT_TABLE[i][x])]]

ChiReference(B) ==
    [i \in 1..5 |-> [j \in 1..5 |->
        LaneXor(B[i][j], LaneNotAnd(B[Wrap(i)][j], B[Wrap(i + 1)][j]))]]

IotaReference(F, rc) == [F EXCEPT ![1][1] = LaneXor(F[1][1], rc)]

RoundReference(state, rc) ==
    IotaReference(ChiReference(PiRhoReference(ThetaReference(state))), rc)

\* C20: for every 5x5 state of 64-bit lanes and round constant rc,
\* round(state, rc) equals iota(chi(piRho(theta(state))), rc), with theta,
\* piRho, chi and iota the reference steps on 64-bit lanes, indices mod 5.
C20_RoundIsReference ==
    (unit.op = "round" /\ UnitEnded)
    => /\ unit.status = "returned"
       /\ unit.result = RoundReference(unit.state, unit.rc)

\* (i, j) -> (j, (2i + 3j) mod 5) on the 5x5 grid, indices from 0
Relocate(p) == <<p[2], (2 * p[1] + 3 * p[2]) % 5>>

\* C24: the relocation (i, j) -> (j, (2i + 3j) mod 5) of piRho is a bijection
\* on the 5x5 grid: each of the 25 lanes of the output is written exactly
\* once, so none keeps the zero of State.zeros() and none is overwritten.
C24_PiRhoBijection ==
    /\ \A q \in (0..4) \X (0..4) :
           Cardinality({p \in (0..4) \X (0..4) : Relocate(p) = q}) = 1
    /\ unit.op = "piRho"
       => /\ \A x \in 1..5, y \in 1..5 : unit.writes[x][y] = 1
          /\ unit.mode = "witness"
             => /\ unit.result = PiRhoReference(unit.state)
                /\ \A x \in 1..5, y \in 1..5 : unit.result[x][y] # <<>>

\* piRho has moved the lane with two bits from [1][2], rotated by 10, to
\* [2][(2 + 6) mod 5]
C24_Witness ==
    /\ unit.op = "piRho" /\ unit.mode = "witness"
    /\ unit.state[2][3] = FieldAdd(TwoPow(0), TwoPow(63))
    /\ unit.result[3][4] = LaneRotl(unit.state[2][3], 10)
    /\ unit.writes[3][4] = 1

\* the 24 rounds from round k (from 1) on, in the order of the constants
RECURSIVE PermutationFrom(_, _)
PermutationFrom(state, k) ==
    IF k > 24 THEN state
    ELSE PermutationFrom(RoundReference(state, ROUND_CONSTANTS[k]), k + 1)

\* the state after the blocks from word idx (from 0) on have been absorbed
RECURSIVE AbsorbFrom(_, _, _, _, _)
AbsorbFrom(state, paddedMessage, capacity, rate, idx) ==
    IF idx >= Len(paddedMessage) THEN state
    ELSE LET block == SubSeq(paddedMessage, idx + 1, idx + rate)
                          \o [k \in 1..capacity |-> <<>>]
             blockState == [i \in 1..5 |-> [j \in 1..5 |-> block[5 * (j - 1) + i]]]
             xored == [i \in 1..5 |-> [j \in 1..5 |->
                          LaneXor(state[i][j], blockState[i][j])]]
         IN  AbsorbFrom(PermutationFrom(xored, 1), paddedMessage, capacity,
                        rate, idx + rate)

\* C19: absorb throws unless rate + capacity == 25 and paddedMessage.length
\* is a multiple of rate; otherwise it starts from the all-zero state and, for
\* each rate-word block in message order, XORs the block zero-extended to 25
\* words into the running state and then applies the permutation (24 rounds,
\* constants in index order): it returns the state so reached, the
\* permutation having been invoked paddedMessage.length / rate times.
C19_Absorb ==
    (unit.op = "absorb" /\ UnitEnded)
    => IF unit.rate + unit.capacity # 25 \/ Len(unit.bytes) % unit.rate # 0
       THEN unit.status = "Error" /\ calls[1] = IdleCall
       ELSE /\ unit.status = "returned"
            /\ unit.count = Len(unit.bytes) \div unit.rate
            /\ unit.result =
                  AbsorbFrom([i \in 1..5 |-> [j \in 1..5 |-> <<>>]],
                             unit.bytes, unit.capacity, unit.rate, 0)

\* ----------------------------------- properties of constraint system tests

\* the lists from list i (from 1) on occur in gates as contiguous runs, in
\* order and without overlapping, after the first `start` gates
RECURSIVE OccursFrom(_, _, _, _)
OccursFrom(lists, gates, i, start) ==
    IF i > Len(lists) THEN TRUE
    ELSE \E s \in start..(Len(gates) - Len(lists[i])) :
            /\ SubSeq(gates, s + 1, s + Len(lists[i])) = lists[i]
            /\ OccursFrom(lists, gates, i + 1, s + Len(lists[i]))

\* C15: for a single gate list P, contains(P) passes on a constraint system
\* if and only if the sequence of its gate types has P as a contiguous
\* subsequence; for a list of lists it passes if and only if each list occurs
\* as a contiguous run, the runs appearing in the given order without
\* overlapping. (Stated for gate lists that are not empty.)
C15_Contains ==
    (unit.op = "contains"
        /\ \A i \in 1..Len(unit.test.run.gates) : unit.test.run.gates[i] # <<>>)
    => (unit.ok <=> OccursFrom(unit.test.run.gates, unit.cs, 1, 0))

\* contains never passes without the runs being there
ContainsIsSound ==
    (unit.op = "contains" /\ unit.ok)
    => OccursFrom(unit.test.run.gates, unit.cs, 1, 0)

\* C16: not negates a test: for every test t (a base test, or one built with
\* not, and, or) and every gate list, run(not(t)).ok is the negation of
\* run(t).ok, and not(not(t)) gives the same result as t.
C16_NotNegates ==
    unit.op = "not"
    => /\ unit.negated = ~unit.ok
       /\ unit.twice = unit.ok

\* on a base test not negates
NotNegatesBaseTests ==
    (unit.op = "not" /\ unit.test.kind = "undefined") => unit.negated = ~unit.ok

\* C25: for every test built from base tests with not, and, or (of any number
\* of sub-tests, none included) and every gate list, run returns ok = true if
\* and only if the failures it returns are none.
C25_OkIffNoFailures ==
    unit.op = "run" => (unit.ok <=> Len(unit.failures) = 0)

\* an or of no test, at any depth of the test
RECURSIVE HasEmptyOr(_)
HasEmptyOr(test) ==
    /\ test.kind \in {"and", "or"}
    /\ \/ test.kind = "or" /\ Len(test.tests) = 0
       \/ \E k \in 1..Len(test.tests) : HasEmptyOr(test.tests[k])

\* ok goes with no failure for every test without an or of no test, and
\* a test that passes never returns a failure
OkIffNoFailuresButEmptyOr ==
    unit.op = "run"
    => /\ unit.ok => Len(unit.failures) = 0
       /\ ~HasEmptyOr(unit.test) => (unit.ok <=> Len(unit.failures) = 0)

\* ------------------------------- properties of the example contract

\* the actions of the last settlement that a method dispatched; they were
\* all dispatched in one settling cycle, on the same settled fields
ResultsOf(method) ==
    {i \in 1..Len(offchainState.results) :
        offchainState.results[i].action.method = method}

Changed(r) == r.after # r.before

MintedBefore(i) ==
    \E j \in ResultsOf("createAccount") :
        /\ j < i
        /\ offchainState.results[j].after.totalSupply
               # offchainState.results[j].before.totalSupply

CreditedOnce == \A a \in Addresses : offchainState.credited[a] <= 1

C13_WitnessExisting ==
    \E i \in ResultsOf("createAccount") :
        LET r == offchainState.results[i]
        IN  /\ r.before.accounts[r.action.to] # undefined
            /\ ~MintedBefore(i)
            /\ r.action.amount > 0
            /\ offchainState.credited[r.action.to] = 1

\* the fields after both updates of a transfer
Transferred(state, from, to, amount) ==
    LET debited == [state.accounts EXCEPT ![from] = @ - amount]
    IN  fields([debited EXCEPT ![to] = orElse(@, 0) + amount],
               state.totalSupply)

\* both updates of a transfer or none
TransferIsAtomic ==
    \A i \in ResultsOf("transfer") :
        LET r == offchainState.results[i]
            a == r.action
        IN  /\ r.isValidUpdate
                => /\ r.before.accounts[a.from] = a.updates[1].from
                   /\ r.before.accounts[a.to] = a.updates[2].from
                   /\ r.after = Transferred(r.before, a.from, a.to, a.amount)
            /\ ~r.isValidUpdate => r.after = r.before

\* two transfers of one settling cycle with the same sender and receiver:
\* they read the same settled balances
SameBalances(i, j) ==
    /\ i \in ResultsOf("transfer")
    /\ j \in ResultsOf("transfer")
    /\ i < j
    /\ offchainState.results[i].action.from = offchainState.results[j].action.from
    /\ offchainState.results[i].action.to = offchainState.results[j].action.to

\* C14: the two updates of a transfer are accepted only if both balances are
\* those read at dispatch, else none is applied; of the transfers dispatched
\* on the same settled balances in one settling cycle only the first changes
\* the balances
C14_Transfer ==
    /\ TransferIsAtomic
    /\ \A i, j \in ResultsOf("transfer") :
           SameBalances(i, j) => ~Changed(offchainState.results[j])

\* C14, amended: the two updates of a transfer are accepted only if both
\* balances are those read at dispatch, else none is applied; of the
\* transfers dispatched on the same settled balances in one settling cycle
\* at most one changes the balances, and those after it are rejected
C14_TransferAtMostOne ==
    /\ TransferIsAtomic
    /\ \A i, j \in ResultsOf("transfer") :
           (SameBalances(i, j) /\ Changed(offchainState.results[i]))
           => /\ ~offchainState.results[j].isValidUpdate
              /\ ~Changed(offchainState.results[j])

\* a settlement that applied a transfer and rejected a later one of the
\* same sender and receiver
C14_Witness ==
    \E i, j \in ResultsOf("transfer") :
        /\ SameBalances(i, j)
        /\ offchainState.results[i].action.from
               # offchainState.results[i].action.to
        /\ Changed(offchainState.results[i])
        /\ offchainState.results[j].action.amount > 0
        /\ ~offchainState.results[j].isValidUpdate

\* a transfer is rejected as a whole when only the receiver's balance moved
C14_WitnessReceiverMoved ==
    \E i \in ResultsOf("transfer") :
        LET r == offchainState.results[i]
            a == r.action
        IN  /\ a.from # a.to
            /\ r.before.accounts[a.from] = a.updates[1].from
            /\ r.before.accounts[a.to] # a.updates[2].from
            /\ r.after = r.before

\* ------------------------------------------------- properties of hash calls

HashEnded == hashCall.status \notin {"idle", "running"}

\* C2: for every len in {224, 256, 384, 512} and every message, nistSha3 and
\* preNist pass all of hash's parameter checks and the squeeze check (they do
\* not throw) and return exactly len / 8 bytes.
C2_EntryPointsReturn ==
    (HashEnded /\ hashCall.entry \in {"nistSha3", "preNist"})
    => /\ hashCall.status = "returned"
       /\ Len(hashCall.out) = hashCall.len \div 8

\* the two hexadecimal digits of each byte, in order
RECURSIVE HexDigits(_)
HexDigits(bytes) ==
    IF bytes = <<>> THEN <<>>
    ELSE <<BitsToNat(Head(bytes)) \div 16, BitsToNat(Head(bytes)) % 16>>
         \o HexDigits(Tail(bytes))

\* a7ffc6f8bf1ed76651c14756a061d662f580ff4de43b49fa82d80a4b80f8434a
Sha3_256_Empty ==
    <<
      10, 7, 15, 15, 12, 6, 15, 8, 11, 15, 1, 14, 13, 7, 6, 6,
      5, 1, 12, 1, 4, 7, 5, 6, 10, 0, 6, 1, 13, 6, 6, 2,
      15, 5, 8, 0, 15, 15, 4, 13, 14, 4, 3, 11, 4, 9, 15, 10,
      8, 2, 13, 8, 0, 10, 4, 11, 8, 0, 15, 8, 4, 3, 4, 10 >>

\* c5d2460186f7233c927e7db2dcc703c0e500b653ca82273b7bfad8045d85a47, the 63
\* digits the known-answer vector gives for ethereum([])
Keccak_256_Empty ==
    <<
      12, 5, 13, 2, 4, 6, 0, 1, 8, 6, 15, 7, 2, 3, 3, 12,
      9, 2, 7, 14, 7, 13, 11, 2, 13, 12, 12, 7, 0, 3, 12, 0,
      14, 5, 0, 0, 11, 6, 5, 3, 12, 10, 8, 2, 2, 7, 3, 11,
      7, 11, 15, 10, 13, 8, 0, 4, 5, 13, 8, 5, 10, 4, 7 >>

\* C5: nistSha3(256, []) returns the 32 bytes a7ff...434a and ethereum([])
\* returns the Keccak-256 value of the known-answer vector.
C5_KnownAnswers ==
    /\ (HashEnded /\ hashCall.entry = "nistSha3" /\ hashCall.len = 256
            /\ hashCall.message = <<>>)
       => /\ hashCall.status = "returned"
          /\ HexDigits(hashCall.out) = Sha3_256_Empty
    /\ (HashEnded /\ hashCall.entry = "ethereum" /\ hashCall.message = <<>>)
       => /\ hashCall.status = "returned"
          /\ HexDigits(hashCall.out) = Keccak_256_Empty

HashParamsRejected(length, capacity) ==
    \/ capacity <= 0
    \/ capacity >= 200
    \/ length <= 0
    \/ capacity % 8 # 0
    \/ length % 8 # 0

\* C8: hash throws, before padding or emitting any constraint, whenever
\* capacity <= 0, capacity >= 200, length <= 0, or capacity or length is not a
\* multiple of 8 bytes; otherwise it derives rate = 25 - capacity / 8 words.
C8_HashChecksParameters ==
    hashCall.status # "idle"
    => IF HashParamsRejected(hashCall.length, hashCall.capacity)
       THEN /\ hashCall.status = "Error"
            /\ hashCall.paddedBytes = <<>>
            /\ calls[1] = IdleCall
       ELSE /\ hashCall.rate = 25 - hashCall.capacity \div 8
            /\ hashCall.paddedBytes # <<>>

\* a call with a length that is no multiple of 8 threw before padding, and
\* (in another run) a call with good parameters derived its rate and padded
C8_Witness ==
    /\ hashCall.status = "Error"
    /\ hashCall.length > 0 /\ hashCall.length % 8 # 0
    /\ hashCall.capacity = 64
    /\ hashCall.paddedBytes = <<>>

Below(f, bits) == f \notin {NoVal, NotModelled} /\ BitsLess(f, TwoPow(bits))

\* C18: in every hash invocation through nistSha3, preNist or ethereum, for
\* any message array passed by the caller, every message byte is < 256 before
\* padding, and every word built from the padded message and every lane of
\* the state at every step of absorption and permutation is < 2^64.
C18_HashRanges ==
    (hashCall.entry \in {"nistSha3", "preNist", "ethereum"}
        /\ hashCall.status # "idle")
    => /\ \A k \in 1..Len(hashCall.message) : Below(hashCall.message[k], 8)
       /\ \A k \in 1..Len(hashCall.padded) : Below(hashCall.padded[k], 64)
       /\ \A i \in 1..Len(hashCall.state) : \A j \in 1..Len(hashCall.state[i]) :
             Below(hashCall.state[i][j], 64)
       /\ \A i \in 1..Len(hashCall.blockState) :
             \A j \in 1..Len(hashCall.blockState[i]) :
                Below(hashCall.blockState[i][j], 64)

\* with message bytes below 256 the words and lanes built are below 2^64
HashRangesOfBytes ==
    (hashCall.status # "idle"
        /\ \A k \in 1..Len(hashCall.message) : Below(hashCall.message[k], 8))
    => /\ \A k \in 1..Len(hashCall.padded) : Below(hashCall.padded[k], 64)
       /\ \A i \in 1..Len(hashCall.blockState) :
             \A j \in 1..Len(hashCall.blockState[i]) :
                Below(hashCall.blockState[i][j], 64)

\* ------------------------------------ properties of pad, the codec, squeeze

\* C6: for every message length n >= 0 and rate >= 1, the length of
\* pad(message, rate, nist) is the smallest multiple of rate strictly greater
\* than n: a multiple of rate, and n + rate when n is a multiple of rate.
C6_PadLength ==
    unit.op = "pad"
    => LET n == Len(unit.bytes)
           l == Len(unit.result)
       IN  /\ l % unit.rate = 0
           /\ l > n
           /\ l - unit.rate <= n
           /\ n % unit.rate = 0 => l = n + unit.rate

\* a non-empty message that fills its blocks has been padded, rate > 1
C6_Witness ==
    /\ unit.op = "pad"
    /\ unit.rate > 1
    /\ Len(unit.bytes) > 0 /\ Len(unit.bytes) % unit.rate = 0
    /\ Len(unit.result) = Len(unit.bytes) + unit.rate

\* C21: pad(message, rate, nist) is the message followed by the padding bytes
\* F, 0, ..., 0, 0x80, with F = 0x06 when nist and 0x01 otherwise; a padding
\* of one byte is F + 0x80; the last byte of the result has bit 0x80 set.
C21_PadContents ==
    unit.op = "pad"
    => LET n == Len(unit.bytes)
           l == Len(unit.result)
           F == IF unit.nist THEN 6 ELSE 1
       IN  /\ l > n
           /\ SubSeq(unit.result, 1, n) = unit.bytes
           /\ l = n + 1 => unit.result[l] = FieldFrom(F + 128)
           /\ l > n + 1
              => /\ unit.result[n + 1] = FieldFrom(F)
                 /\ unit.result[l] = FieldFrom(128)
                 /\ \A i \in (n + 2)..(l - 1) : unit.result[i] = FieldFrom(0)
           /\ bitAt(unit.result[l], 8) = 1

\* a non-empty message one byte short of its blocks has got the single
\* padding byte 0x86
C21_Witness ==
    /\ unit.op = "pad" /\ unit.nist
    /\ Len(unit.bytes) > 0
    /\ Len(unit.result) = Len(unit.bytes) + 1
    /\ unit.result[Len(unit.result)] = FieldFrom(134)

\* a padding of three bytes or more has been appended
C21_WitnessLong ==
    /\ unit.op = "pad" /\ ~unit.nist
    /\ Len(unit.result) >= Len(unit.bytes) + 3
    /\ unit.result[Len(unit.bytes) + 1] = FieldFrom(1)
    /\ unit.result[Len(unit.bytes) + 2] = FieldFrom(0)

\* C7: for every array of bytes (each < 256) whose length is a multiple of 8,
\* wordsToBytes(bytesToWords(bytes)) succeeds and returns the same byte values
\* in the same order.
C7_RoundTrip ==
    (unit.op = "roundTrip" /\ Len(unit.bytes) % 8 = 0)
    => /\ unit.ok
       /\ Len(unit.result) = Len(unit.bytes)
       /\ unit.mode = "witness" => unit.result = unit.bytes

\* two words, the first with its top byte 255 and the second with a low byte
\* set, have made the round trip
C7_Witness ==
    /\ unit.op = "roundTrip" /\ unit.mode = "witness" /\ unit.ok
    /\ Len(unit.bytes) = 16
    /\ unit.bytes[8] = FieldFrom(255) /\ unit.bytes[10] = FieldFrom(1)
    /\ unit.result = unit.bytes

\* C22: wordToBytes(word), where the word has a value, returns for a word
\* < 2^64 its 8 little-endian bytes, each < 256; for a word >= 2^64 the
\* decomposition equality fails and the call throws.
C22_WordToBytes ==
    (unit.op = "wordToBytes" /\ unit.mode = "witness")
    => /\ Below(unit.other, KECCAK_WORD)
          => /\ unit.ok
             /\ Len(unit.result) = BYTES_PER_WORD
             /\ \A k \in 1..BYTES_PER_WORD : Below(unit.result[k], 8)
             /\ \A i \in 1..KECCAK_WORD :
                   bitAt(unit.result[((i - 1) \div 8) + 1], ((i - 1) % 8) + 1)
                       = bitAt(unit.other, i)
       /\ ~Below(unit.other, KECCAK_WORD)
          => ~unit.ok /\ unit.error = "Field.assertEquals()"

\* the word 2^64 + 1 has been refused
C22_Witness ==
    /\ unit.op = "wordToBytes" /\ unit.mode = "witness"
    /\ unit.other = FieldAdd(TwoPow(KECCAK_WORD), FieldFrom(1))
    /\ ~unit.ok

\* the word 2^63 + 2^8 has been split into its bytes
C22_WitnessBytes ==
    /\ unit.op = "wordToBytes" /\ unit.mode = "witness" /\ unit.ok
    /\ unit.other = FieldAdd(TwoPow(KECCAK_WORD - 1), TwoPow(8))
    /\ unit.result[2] = FieldFrom(1)
    /\ unit.result[BYTES_PER_WORD] = FieldFrom(128)

\* word k (from 0) of State.toWords(state), as C10 gives it
LaneOfWord(state, k) == state[(k % 5) + 1][(k \div 5) + 1]

\* C10 as stated: squeeze throws if and only if length > rate, and for every
\* length with 0 <= length <= rate it returns exactly the first `length` words
\* of State.toWords(state), word k being state[k mod 5][floor(k / 5)].
C10_SqueezeAsStated ==
    unit.op = "squeeze"
    => /\ ~unit.ok <=> unit.length > unit.rate
       /\ (0 <= unit.length /\ unit.length <= unit.rate)
          => /\ unit.ok
             /\ Len(unit.result) = unit.length
             /\ \A k \in 0..(unit.length - 1) :
                   unit.result[k + 1] = LaneOfWord(unit.state, k)

\* C10, amended: squeeze throws if and only if floor(length / rate) + 1 # 1,
\* that is (for rate >= 1) unless 0 <= length < rate; for every length with
\* 0 <= length < rate it returns the first `length` words of
\* State.toWords(state) (all 25 of them when length > 25), word k being
\* state[k mod 5][floor(k / 5)].
C10_SqueezeSingleRound ==
    unit.op = "squeeze"
    => /\ ~unit.ok <=> ~(0 <= unit.length /\ unit.length < unit.rate)
       /\ (0 <= unit.length /\ unit.length < unit.rate)
          => /\ Len(unit.result) = (IF unit.length < 25 THEN unit.length ELSE 25)
             /\ \A k \in 0..(Len(unit.result) - 1) :
                   unit.result[k + 1] = LaneOfWord(unit.state, k)

\* a squeeze of 7 words at rate 17 has returned, and its word 6 is lane [1][1]
C10_Witness ==
    /\ unit.op = "squeeze" /\ unit.ok
    /\ unit.length = 7 /\ unit.rate = 17
    /\ unit.result[7] = unit.state[2][2]

====
